---- MODULE Spec2Model ----
(***************************************************************************)
(* Model of c6.ts: the coordinate codec (zigzag + Morton interleave), the  *)
(* bit-packed Chunk, the sparse RawBoard and the history-tracked Board.    *)
(*                                                                         *)
(* A JavaScript number that flows through the bitwise operators is         *)
(* represented by its 32-bit pattern: the set of positions (0 = least      *)
(* significant) of its one bits.  ToInt32 turns an integer into its        *)
(* pattern, Num turns a pattern back into the non-negative number it       *)
(* denotes.                                                                *)
(***************************************************************************)
EXTENDS Integers, Sequences, FiniteSets, TLC

\* ------------------------------------------------------------------------
\* Bounds of the model
\* ------------------------------------------------------------------------

\* Longest record the model builds (Board.set is not called beyond it).
MaxLen == 3

\* the longest record of the specification in which every commit uses the
\* marker Board.infer_turn returned
MaxTurnLen == 6

\* Points passed to Board.set: two in the same word (slots 0 and 15), one
\* in another chunk, one at the extremes of the supported range.
Points ==
  { [x |-> 0, y |-> 0], [x |-> -2, y |-> -2],
    [x |-> 8, y |-> 0], [x |-> -32768, y |-> 32767] }

\* Points read with Board.get: the inputs and two neighbours never set.
Probes == Points \cup { [x |-> 1, y |-> 0], [x |-> 2, y |-> -3] }

\* Coordinates handed to the codec on its own: the ends of the supported
\* range -32768..32767, the places where a bit of the zigzag code changes,
\* the neighbours of 0, and the edges of the chunks next to the origin.
CodecCoords ==
  { -32768, -32767, -16385, -16384, -129, -128, -17, -16, -9, -8, -1,
    0, 1, 7, 8, 15, 16, 127, 128, 16383, 16384, 32766, 32767 }

\* Coordinates outside the supported range, within signed 32 bits.
OutCoords == { -2147483647 - 1, -65536, -32769, 32768, 65536, 2147483647 }

InPoints  == { [x |-> a, y |-> b] : a \in CodecCoords, b \in CodecCoords }
OutPoints ==
  { [x |-> a, y |-> b] : a \in OutCoords, b \in {0, -1} }
    \cup { [x |-> a, y |-> b] : a \in {0, -1}, b \in OutCoords }
CodecPoints == InPoints \cup OutPoints

\* Words and slots addressed in a Chunk used on its own: the first and the
\* last word, and in each the first slot, its neighbour and the last slot
\* (the top two bits of the word).
WordIds == {0, 15}
SlotIds == {0, 1, 15}

\* ------------------------------------------------------------------------
\* 32-bit patterns and the JavaScript bitwise operators
\* ------------------------------------------------------------------------

Bit == 0..31

RECURSIVE NatBits(_, _)
\* one bits of the non-negative integer n, counted from position i
NatBits(n, i) ==
  IF n = 0 THEN {}
  ELSE (IF n % 2 = 1 THEN {i} ELSE {}) \cup NatBits(n \div 2, i + 1)

\* ToInt32 of an integer in -2^31 .. 2^31-1 (two's complement pattern)
ToInt32(n) == IF n >= 0 THEN NatBits(n, 0) ELSE Bit \ NatBits(-(n + 1), 0)

RECURSIVE Num(_)
\* the non-negative number a pattern denotes (ToUint32 read back)
Num(w) ==
  IF w = {} THEN 0
  ELSE LET i == CHOOSE j \in w : \A k \in w : k <= j IN 2^i + Num(w \ {i})

\* the number a pattern denotes as the result of | & ^ ~ << >> (an int32)
Int32(w) == IF 31 \in w THEN -Num(Bit \ w) - 1 ELSE Num(w)

And(a, b) == a \cap b
Or(a, b)  == a \cup b
Xor(a, b) == (a \ b) \cup (b \ a)
Not(a)    == Bit \ a
\* a << k
Shl(a, k) == {i + k : i \in a} \cap Bit
\* a >>> k
Shr(a, k) == {i - k : i \in {j \in a : j >= k}}
\* a >> k
Sar(a, k) == Shr(a, k) \cup (IF 31 \in a THEN (32 - k)..31 ELSE {})

\* hexadecimal masks of scatter and gather
Hex00ff00ff == {i \in Bit : i % 16 < 8}
Hex0f0f0f0f == {i \in Bit : i % 8 < 4}
Hex33333333 == {i \in Bit : i % 4 < 2}
Hex55555555 == {i \in Bit : i % 2 = 0}
Hex0000ffff == 0..15

\* ------------------------------------------------------------------------
\* Coordinate codec
\* ------------------------------------------------------------------------

CHUNK_SIZE_BITS == 4
SLOT_INDEX_BITS == 4
WORD_INDEX_BITS == CHUNK_SIZE_BITS * 2 - SLOT_INDEX_BITS
CHUNK_SIZE == 2^CHUNK_SIZE_BITS
WORDS_PER_CHUNK == (CHUNK_SIZE * CHUNK_SIZE * 2) \div 32

\* extract_lo_bits dropping one bit more than it returns
extract_lo_bits_DropsOneMore(i, bits) ==
  <<Shr(i, bits + 1), And(i, ToInt32(2^bits - 1))>>

\* [i >>> bits, i & ((1 << bits) - 1)]
extract_lo_bits(i, bits) == <<Shr(i, bits), And(i, ToInt32(2^bits - 1))>>

\* zigzag_encode without the sign term
zigzag_encode_NoSign(x) == Shr(Shl(ToInt32(x), 1), 0)

\* ((x << 1) ^ (x >> 31)) >>> 0
zigzag_encode(x) == Shr(Xor(Shl(ToInt32(x), 1), Sar(ToInt32(x), 31)), 0)

scatter(x0) ==
  LET x1 == And(Or(x0, Shl(x0, 8)), Hex00ff00ff)
      x2 == And(Or(x1, Shl(x1, 4)), Hex0f0f0f0f)
      x3 == And(Or(x2, Shl(x2, 2)), Hex33333333)
  IN  And(Or(x3, Shl(x3, 1)), Hex55555555)

interleave(x, y) == Or(scatter(x), Shl(scatter(y), 1))

\* Point.index()
Point_index(point) == interleave(zigzag_encode(point.x), zigzag_encode(point.y))

\* Point.indexes(): [chunk_i, word_i, slot_i]
Point_indexes(point) ==
  LET s == extract_lo_bits(Point_index(point), SLOT_INDEX_BITS)
      w == extract_lo_bits(s[1], WORD_INDEX_BITS)
  IN  <<Num(w[1]), Num(w[2]), Num(s[2])>>

\* zigzag_decode without the sign term
zigzag_decode_NoSign(x) == Int32(Sar(Shr(x, 1), 0))

\* ((x >>> 1) ^ -(x & 1)) >> 0
zigzag_decode(x) ==
  Int32(Sar(Xor(Shr(x, 1), ToInt32(-Int32(And(x, ToInt32(1))))), 0))

gather(x0) ==
  LET x1 == And(x0, Hex55555555)
      x2 == And(Or(x1, Shr(x1, 1)), Hex33333333)
      x3 == And(Or(x2, Shr(x2, 2)), Hex0f0f0f0f)
      x4 == And(Or(x3, Shr(x3, 4)), Hex00ff00ff)
  IN  And(Or(x4, Shr(x4, 8)), Hex0000ffff)

deinterleave(x) == <<gather(x), gather(Shr(x, 1))>>

\* Point.from_index(i)
Point_from_index(i) ==
  [x |-> zigzag_decode(deinterleave(i)[1]),
   y |-> zigzag_decode(deinterleave(i)[2])]

\* the number Point.index() returns: interleave ends with |, an int32
Point_index_value(point) == Int32(Point_index(point))

\* point.indexes() of the points the model uses; the codec is a pure
\* function of the point, so it is evaluated once for each of them
indexes == [point \in Probes \cup CodecPoints |-> Point_indexes(point)]

\* point.index() and point.indexes() of the points handed to the codec
codes ==
  [point \in CodecPoints |->
     [index |-> Point_index(point), indexes |-> Point_indexes(point)]]

\* ------------------------------------------------------------------------
\* Stone, Chunk, RawBoard
\* ------------------------------------------------------------------------

Black == 0
White == 1
Stone == {Black, White}

\* An optional result (Stone | null, [Point, Stone] | null) is the empty
\* tuple for null and a one-element tuple holding the value otherwise.
null == <<>>
Some(v) == <<v>>

\* new Chunk(): WORDS_PER_CHUNK zero words
NewChunk == [word_i \in 0..(WORDS_PER_CHUNK - 1) |-> {}]

\* (word >>> (slot_i * 2)) & 3
SlotBits(word, slot_i) == Num(And(Shr(word, slot_i * 2), ToInt32(3)))

Chunk_get(words, word_i, slot_i) ==
  LET v == SlotBits(words[word_i], slot_i)
  IN  IF v = 0 THEN null ELSE IF v = 1 THEN Some(Black) ELSE Some(White)

\* Chunk.set without the occupancy test: the slot is written in any case
Chunk_set_Overwrite(words, word_i, slot_i, stone) ==
  [words |-> [words EXCEPT ![word_i] =
                Or(words[word_i], Shl(ToInt32(1), slot_i * 2 + stone))],
   ret |-> TRUE]

\* returns the words after the call and the boolean result
Chunk_set(words, word_i, slot_i, stone) ==
  LET word == words[word_i]
  IN  IF SlotBits(word, slot_i) # 0
      THEN [words |-> words, ret |-> FALSE]
      ELSE [words |-> [words EXCEPT ![word_i] =
                         Or(word, Shl(ToInt32(1), slot_i * 2 + stone))],
            ret |-> TRUE]

\* Chunk.unset with the mask 3 << slot_i: the shift is not doubled
Chunk_unset_MaskUnscaled(words, word_i, slot_i) ==
  LET word == words[word_i]
      v    == SlotBits(word, slot_i)
  IN  [words |-> [words EXCEPT ![word_i] =
                    And(word, Not(Shl(ToInt32(3), slot_i)))],
       ret |-> IF v = 0 THEN null ELSE IF v = 1 THEN Some(Black) ELSE Some(White)]

Chunk_unset(words, word_i, slot_i) ==
  LET word == words[word_i]
      v    == SlotBits(word, slot_i)
  IN  [words |-> [words EXCEPT ![word_i] =
                    And(word, Not(Shl(ToInt32(3), slot_i * 2)))],
       ret |-> IF v = 0 THEN null ELSE IF v = 1 THEN Some(Black) ELSE Some(White)]

\* Let(v, LAMBDA x : e) is e with x naming the value v: a local variable
\* of the source.
Let(v, F(_)) == F(v)

\* RawBoard.chunks is a function from the chunk indexes present in the Map
\* to the words of their Chunk.
RawBoard_get(chunks, point) ==
  Let(indexes[point], LAMBDA ix :
    IF ix[1] \notin DOMAIN chunks THEN null
    ELSE Chunk_get(chunks[ix[1]], ix[2], ix[3]))

chunk_or_default(chunks, chunk_i) ==
  IF chunk_i \in DOMAIN chunks THEN chunks
  ELSE [c \in DOMAIN chunks \cup {chunk_i} |->
          IF c = chunk_i THEN NewChunk ELSE chunks[c]]

\* RawBoard.set returning true whatever Chunk.set returned
RawBoard_set_ReportsSuccess(chunks, point, stone) ==
  Let(indexes[point], LAMBDA ix :
  Let(chunk_or_default(chunks, ix[1]), LAMBDA cs :
  Let(Chunk_set(cs[ix[1]], ix[2], ix[3], stone), LAMBDA r :
    [chunks |-> [cs EXCEPT ![ix[1]] = r.words], ret |-> TRUE])))

RawBoard_set(chunks, point, stone) ==
  Let(indexes[point], LAMBDA ix :
  Let(chunk_or_default(chunks, ix[1]), LAMBDA cs :
  Let(Chunk_set(cs[ix[1]], ix[2], ix[3], stone), LAMBDA r :
    [chunks |-> [cs EXCEPT ![ix[1]] = r.words], ret |-> r.ret])))

RawBoard_unset(chunks, point) ==
  Let(indexes[point], LAMBDA ix :
    IF ix[1] \notin DOMAIN chunks THEN [chunks |-> chunks, ret |-> null]
    ELSE Let(Chunk_unset(chunks[ix[1]], ix[2], ix[3]), LAMBDA r :
           [chunks |-> [chunks EXCEPT ![ix[1]] = r.words], ret |-> r.ret]))

\* ------------------------------------------------------------------------
\* Board: pure form of each method on a record b of the object's fields
\*   b.board  : RawBoard.chunks      b.record : sequence of <<point, stone>>
\*   b._index : the cursor
\* record[i] of the source is b.record[i + 1] here.
\* ------------------------------------------------------------------------

NewBoard == [board |-> <<>>, record |-> <<>>, _index |-> 0]

total_count(b) == Len(b.record)
Board_index(b) == b._index
is_empty(b)    == b._index = 0
Board_get(b, point) == RawBoard_get(b.board, point)

\* past_record returning the whole record, redo tail included
past_record_WholeRecord(b) == b.record

past_record(b) == SubSeq(b.record, 1, b._index)

\* Board.set without record.splice: the redo tail survives the commit
Board_set_NoSplice(b, point, stone) ==
  Let(RawBoard_set(b.board, point, stone), LAMBDA r :
    IF ~r.ret THEN [b |-> [b EXCEPT !.board = r.chunks], ret |-> FALSE]
    ELSE [b |-> [board  |-> r.chunks,
                 record |-> Append(b.record, <<point, stone>>),
                 _index |-> b._index + 1],
          ret |-> TRUE])

\* Board.set with record.splice(this._index - 1): one entry too many goes
Board_set_SpliceOneMore(b, point, stone) ==
  Let(RawBoard_set(b.board, point, stone), LAMBDA r :
    IF ~r.ret THEN [b |-> [b EXCEPT !.board = r.chunks], ret |-> FALSE]
    ELSE [b |-> [board  |-> r.chunks,
                 record |-> Append(SubSeq(b.record, 1, b._index - 1),
                                   <<point, stone>>),
                 _index |-> b._index + 1],
          ret |-> TRUE])

Board_set(b, point, stone) ==
  Let(RawBoard_set(b.board, point, stone), LAMBDA r :
    IF ~r.ret THEN [b |-> [b EXCEPT !.board = r.chunks], ret |-> FALSE]
    ELSE [b |-> [board  |-> r.chunks,
                 record |-> Append(SubSeq(b.record, 1, b._index),
                                   <<point, stone>>),
                 _index |-> b._index + 1],
          ret |-> TRUE])

RECURSIVE from_record_forEach(_, _, _)
\* record.forEach(move => board.set(new Point(move[0].x, move[0].y), move[1]))
\* from entry i on; the result of Board.set is ignored
from_record_forEach(b, rec, i) ==
  IF i > Len(rec) THEN b
  ELSE from_record_forEach(
         Board_set(b, [x |-> rec[i][1].x, y |-> rec[i][1].y], rec[i][2]).b,
         rec, i + 1)

\* Board.from_record(record)
Board_from_record(rec) == from_record_forEach(NewBoard, rec, 1)

\* Board.unset that forgets the grid: the stone stays on the RawBoard
Board_unset_KeepsStone(b) ==
  IF b._index = 0 THEN [b |-> b, ret |-> null]
  ELSE LET last == b.record[b._index]
       IN  [b |-> [b EXCEPT !._index = b._index - 1], ret |-> Some(last)]

\* Board.unset that pops the entry off the record
Board_unset_Pops(b) ==
  IF b._index = 0 THEN [b |-> b, ret |-> null]
  ELSE LET last == b.record[b._index]
       IN  [b |-> [board  |-> RawBoard_unset(b.board, last[1]).chunks,
                   record |-> SubSeq(b.record, 1, b._index - 1),
                   _index |-> b._index - 1],
            ret |-> Some(last)]

Board_unset(b) ==
  IF b._index = 0 THEN [b |-> b, ret |-> null]
  ELSE LET last == b.record[b._index]
       IN  [b |-> [b EXCEPT !._index = b._index - 1,
                            !.board = RawBoard_unset(b.board, last[1]).chunks],
            ret |-> Some(last)]

\* Board.reset that forgets the grid: the stone is not put back
Board_reset_SkipsGrid(b) ==
  IF b._index >= Len(b.record) THEN [b |-> b, ret |-> null]
  ELSE LET next == b.record[b._index + 1]
       IN  [b |-> [b EXCEPT !._index = b._index + 1], ret |-> Some(next)]

Board_reset(b) ==
  IF b._index >= Len(b.record) THEN [b |-> b, ret |-> null]
  ELSE LET next == b.record[b._index + 1]
       IN  [b |-> [b EXCEPT !._index = b._index + 1,
                            !.board = RawBoard_set(b.board, next[1], next[2]).chunks],
            ret |-> Some(next)]

RECURSIVE JumpForward(_, _, _, _)
\* for (let i = this._index; i < index; i++) board.set(record[i])
JumpForward(chunks, record, i, index) ==
  IF ~(i < index) THEN [chunks |-> chunks, threw |-> FALSE]
  ELSE IF (i + 1) \notin DOMAIN record
       THEN [chunks |-> chunks, threw |-> TRUE]
       ELSE LET next == record[i + 1]
            IN  JumpForward(RawBoard_set(chunks, next[1], next[2]).chunks,
                            record, i + 1, index)

RECURSIVE JumpBackward_StopsEarly(_, _, _, _)
\* the backward loop with i > index: the entry at index stays on the grid
JumpBackward_StopsEarly(chunks, record, i, index) ==
  IF ~(i > index) THEN [chunks |-> chunks, threw |-> FALSE]
  ELSE IF (i + 1) \notin DOMAIN record
       THEN [chunks |-> chunks, threw |-> TRUE]
       ELSE LET last == record[i + 1]
            IN  JumpBackward_StopsEarly(RawBoard_unset(chunks, last[1]).chunks,
                                        record, i - 1, index)

RECURSIVE JumpBackward(_, _, _, _)
\* for (let i = this._index - 1; i >= index; i--) board.unset(record[i])
JumpBackward(chunks, record, i, index) ==
  IF ~(i >= index) THEN [chunks |-> chunks, threw |-> FALSE]
  ELSE IF (i + 1) \notin DOMAIN record
       THEN [chunks |-> chunks, threw |-> TRUE]
       ELSE LET last == record[i + 1]
            IN  JumpBackward(RawBoard_unset(chunks, last[1]).chunks,
                             record, i - 1, index)

\* Board.jump without the test index > this.record.length
Board_jump_NoGuard(b, index) ==
  Let(IF b._index < index
      THEN JumpForward(b.board, b.record, b._index, index)
      ELSE JumpBackward(b.board, b.record, b._index - 1, index),
      LAMBDA r :
        IF r.threw
        THEN [b |-> [b EXCEPT !.board = r.chunks], threw |-> TRUE]
        ELSE [b |-> [b EXCEPT !.board = r.chunks, !._index = index],
              threw |-> FALSE])

\* Reading [0] of an undefined record element throws a TypeError, which
\* leaves the method before this._index is assigned; threw tells whether
\* the call ended that way.
Board_jump(b, index) ==
  IF index > Len(b.record) THEN [b |-> b, threw |-> FALSE]
  ELSE Let(IF b._index < index
           THEN JumpForward(b.board, b.record, b._index, index)
           ELSE JumpBackward(b.board, b.record, b._index - 1, index),
           LAMBDA r :
             IF r.threw
             THEN [b |-> [b EXCEPT !.board = r.chunks], threw |-> TRUE]
             ELSE [b |-> [b EXCEPT !.board = r.chunks, !._index = index],
                   threw |-> FALSE])

\* last ^ 1
FlipStone(stone) == Num(Xor(ToInt32(stone), ToInt32(1)))

\* infer_turn reading the end of the record instead of the cursor
infer_turn_ReadsRecordEnd(b) ==
  IF b._index = 0 THEN <<Black, TRUE>>
  ELSE LET last == b.record[Len(b.record)][2]
       IN  IF b._index = 1 THEN <<White, last = White>>
           ELSE LET last_prev == b.record[Len(b.record) - 1][2]
                IN  IF last = last_prev THEN <<FlipStone(last), FALSE>>
                    ELSE <<last, TRUE>>

\* infer_turn with the flag of its last two branches exchanged
infer_turn_FlagExchanged(b) ==
  IF b._index = 0 THEN <<Black, TRUE>>
  ELSE LET last == b.record[b._index][2]
       IN  IF b._index = 1 THEN <<White, last = White>>
           ELSE LET last_prev == b.record[b._index - 1][2]
                IN  IF last = last_prev THEN <<FlipStone(last), TRUE>>
                    ELSE <<last, FALSE>>

\* infer_turn passing the turn after every move
infer_turn_OnePerTurn(b) ==
  IF b._index = 0 THEN <<Black, TRUE>>
  ELSE LET last == b.record[b._index][2]
       IN  IF b._index = 1 THEN <<White, last = White>>
           ELSE LET last_prev == b.record[b._index - 1][2]
                IN  IF last = last_prev THEN <<FlipStone(last), FALSE>>
                    ELSE <<FlipStone(last), TRUE>>

infer_turn(b) ==
  IF b._index = 0 THEN <<Black, TRUE>>
  ELSE LET last == b.record[b._index][2]
       IN  IF b._index = 1 THEN <<White, last = White>>
           ELSE LET last_prev == b.record[b._index - 1][2]
                IN  IF last = last_prev THEN <<FlipStone(last), FALSE>>
                    ELSE <<last, TRUE>>

\* ------------------------------------------------------------------------
\* The state machine: one Board object and the last call made on it
\* ------------------------------------------------------------------------

VARIABLES
  board,    \* Board.board: the chunks of the RawBoard
  record,   \* Board.record
  _index,   \* Board._index
  call,     \* the last method called, with its arguments
  ret,      \* what that call returned: ret.bool for Board.set, ret.entry
            \* for Board.unset and Board.reset, ret.turn for infer_turn
  threw,    \* whether that call ended with an uncaught exception
  pre,      \* the fields of the object when that call was made
  turns,    \* for each entry of record, infer_turn() just before its commit
  pt,       \* a Point handed to the codec
  enc,      \* what Point.index, Point.indexes and Point.from_index made of pt
  words,    \* Chunk.words of one Chunk used on its own
  wpre      \* Chunk.words when the last call on that Chunk was made

vars == <<board, record, _index, call, ret, threw, pre, turns,
          pt, enc, words, wpre>>

\* the value of ret before any call, and after a call of each result type
NoRet == [bool |-> FALSE, entry |-> null, turn |-> <<>>, stone |-> null]
RetBool(v)  == [NoRet EXCEPT !.bool = v]
RetEntry(v) == [NoRet EXCEPT !.entry = v]
RetTurn(v)  == [NoRet EXCEPT !.turn = v]
RetStone(v) == [NoRet EXCEPT !.stone = v]

\* the value of enc before the codec has run on pt
NoEnc == [index |-> null, value |-> null, indexes |-> null, back |-> null]

\* the Board object of the current state
Self == [board |-> board, record |-> record, _index |-> _index]

Install(b) ==
  /\ board' = b.board
  /\ record' = b.record
  /\ _index' = b._index
  /\ pre' = Self
  /\ UNCHANGED <<pt, enc, words, wpre>>

Init ==
  /\ board = NewBoard.board
  /\ record = NewBoard.record
  /\ _index = NewBoard._index
  /\ call = [op |-> "new"]
  /\ ret = NoRet
  /\ threw = FALSE
  /\ pre = NewBoard
  /\ turns = <<>>
  /\ pt = [x |-> 0, y |-> 0]
  /\ enc = NoEnc
  /\ words = NewChunk
  /\ wpre = NewChunk

\* An uncaught exception ends the program: no call follows it.
Set(point, stone) ==
  /\ ~threw
  /\ _index < MaxLen
  /\ \E r \in {Board_set(Self, point, stone)} :
       /\ Install(r.b)
       /\ ret' = RetBool(r.ret)
       /\ turns' = IF r.ret
                   THEN Append(SubSeq(turns, 1, _index), infer_turn(Self))
                   ELSE turns
  /\ call' = [op |-> "set", point |-> point, stone |-> stone]
  /\ UNCHANGED threw

Unset ==
  /\ ~threw
  /\ \E r \in {Board_unset(Self)} : Install(r.b) /\ ret' = RetEntry(r.ret)
  /\ call' = [op |-> "unset"]
  /\ UNCHANGED <<turns, threw>>

Reset ==
  /\ ~threw
  /\ \E r \in {Board_reset(Self)} : Install(r.b) /\ ret' = RetEntry(r.ret)
  /\ call' = [op |-> "reset"]
  /\ UNCHANGED <<turns, threw>>

Jump(index) ==
  /\ ~threw
  /\ \E r \in {Board_jump(Self, index)} :
       Install(r.b) /\ ret' = NoRet /\ threw' = r.threw
  /\ call' = [op |-> "jump", index |-> index]
  /\ UNCHANGED turns

InferTurn ==
  /\ ~threw
  /\ ret' = RetTurn(infer_turn(Self))
  /\ call' = [op |-> "infer_turn"]
  /\ pre' = Self
  /\ UNCHANGED <<board, record, _index, turns, threw, pt, enc, words, wpre>>

\* arguments of Board.jump: the non-negative integers up to one past the
\* longest record, and a negative integer
JumpTargets == 0..(MaxLen + 1)
NegTargets  == {-1}

SetAny  == \E point \in Points, stone \in Stone : Set(point, stone)
JumpAny == \E index \in JumpTargets : Jump(index)
JumpNeg == \E index \in NegTargets : Jump(index)

Next == SetAny \/ Unset \/ Reset \/ JumpAny \/ InferTurn

Spec == Init /\ [][Next]_vars

\* the same machine when Board.jump is also called with a negative integer
NextInt == SetAny \/ Unset \/ Reset \/ JumpAny \/ JumpNeg \/ InferTurn

SpecInt == Init /\ [][NextInt]_vars

\* the same machine when every commit uses the marker Board.infer_turn
\* returns: board.set(point, board.infer_turn()[0])
SetInferred(point) ==
  /\ ~threw
  /\ _index < MaxTurnLen
  /\ \E stone \in {infer_turn(Self)[1]} :
       /\ \E r \in {Board_set(Self, point, stone)} :
            /\ Install(r.b)
            /\ ret' = RetBool(r.ret)
            /\ turns' = IF r.ret
                        THEN Append(SubSeq(turns, 1, _index), infer_turn(Self))
                        ELSE turns
       /\ call' = [op |-> "set", point |-> point, stone |-> stone]
  /\ UNCHANGED threw

TurnPoints == Probes
TurnJumpTargets == 0..(MaxTurnLen + 1)

SetInferredAny == \E point \in TurnPoints : SetInferred(point)
JumpTurn == \E index \in TurnJumpTargets : Jump(index)

NextTurn == SetInferredAny \/ Unset \/ Reset \/ JumpTurn \/ InferTurn

SpecTurn == Init /\ [][NextTurn]_vars

\* The codec on its own: a Point is constructed, then Point.index,
\* Point.indexes and Point.from_index (on the index obtained) are called.
InitCodec ==
  /\ board = NewBoard.board
  /\ record = NewBoard.record
  /\ _index = NewBoard._index
  /\ call = [op |-> "new"]
  /\ ret = NoRet
  /\ threw = FALSE
  /\ pre = NewBoard
  /\ turns = <<>>
  /\ pt \in CodecPoints
  /\ enc = NoEnc
  /\ words = NewChunk
  /\ wpre = NewChunk

Index ==
  /\ enc.index = null
  /\ enc' = [enc EXCEPT !.index = Some(Point_index(pt)),
                        !.value = Some(Point_index_value(pt))]
  /\ UNCHANGED <<board, record, _index, call, ret, threw, pre, turns,
                 pt, words, wpre>>

Indexes ==
  /\ enc.indexes = null
  /\ enc' = [enc EXCEPT !.indexes = Some(Point_indexes(pt))]
  /\ UNCHANGED <<board, record, _index, call, ret, threw, pre, turns,
                 pt, words, wpre>>

FromIndex ==
  /\ enc.index # null
  /\ enc.back = null
  /\ enc' = [enc EXCEPT !.back = Some(Point_from_index(enc.index[1]))]
  /\ UNCHANGED <<board, record, _index, call, ret, threw, pre, turns,
                 pt, words, wpre>>

NextCodec == Index \/ Indexes \/ FromIndex

SpecCodec == InitCodec /\ [][NextCodec]_vars

\* One Chunk on its own: Chunk.set, Chunk.unset and Chunk.get are called
\* on a new Chunk in any order.
ChunkSet(word_i, slot_i, stone) ==
  /\ \E r \in {Chunk_set(words, word_i, slot_i, stone)} :
       words' = r.words /\ ret' = RetBool(r.ret)
  /\ wpre' = words
  /\ call' = [op |-> "Chunk.set", word_i |-> word_i, slot_i |-> slot_i,
              stone |-> stone]
  /\ UNCHANGED <<board, record, _index, threw, pre, turns, pt, enc>>

ChunkUnset(word_i, slot_i) ==
  /\ \E r \in {Chunk_unset(words, word_i, slot_i)} :
       words' = r.words /\ ret' = RetStone(r.ret)
  /\ wpre' = words
  /\ call' = [op |-> "Chunk.unset", word_i |-> word_i, slot_i |-> slot_i]
  /\ UNCHANGED <<board, record, _index, threw, pre, turns, pt, enc>>

ChunkGet(word_i, slot_i) ==
  /\ ret' = RetStone(Chunk_get(words, word_i, slot_i))
  /\ wpre' = words
  /\ call' = [op |-> "Chunk.get", word_i |-> word_i, slot_i |-> slot_i]
  /\ UNCHANGED <<board, record, _index, threw, pre, turns, pt, enc, words>>

ChunkSetAny ==
  \E word_i \in WordIds, slot_i \in SlotIds, stone \in Stone :
     ChunkSet(word_i, slot_i, stone)
ChunkUnsetAny ==
  \E word_i \in WordIds, slot_i \in SlotIds : ChunkUnset(word_i, slot_i)
ChunkGetAny ==
  \E word_i \in WordIds, slot_i \in SlotIds : ChunkGet(word_i, slot_i)

NextChunk == ChunkSetAny \/ ChunkUnsetAny \/ ChunkGetAny

SpecChunk == Init /\ [][NextChunk]_vars

\* ------------------------------------------------------------------------
\* Vocabulary of the properties
\* ------------------------------------------------------------------------

\* the markers recorded for point p below the cursor of b
Materialized(b, p) ==
  {b.record[i][2] : i \in {j \in 1..b._index : b.record[j][1] = p}}

\* the points recorded at or beyond the cursor of b
TailPoints(b) == {b.record[i][1] : i \in (b._index + 1)..Len(b.record)}

\* Board.get agrees on every probed point
SameGrid(a, b) == \A p \in Probes : Board_get(a, p) = Board_get(b, p)

\* the supported range of a coordinate, and the points within it
InRange(c) == c >= -32768 /\ c <= 32767
InRangePoint(point) == InRange(point.x) /\ InRange(point.y)

\* the coordinates whose zigzag code is one of the 16 codes 16a..16a+15
\* that contain the code of c: 8a..8a+7 and their mirror images -8a-8..-8a-1
StripNo(c) == (IF c >= 0 THEN c ELSE -c - 1) \div 8
Strip(c) ==
  (8 * StripNo(c)..(8 * StripNo(c) + 7))
    \cup ((-8 * StripNo(c) - 8)..(-8 * StripNo(c) - 1))
StripPoints(point) ==
  { [x |-> a, y |-> b] : a \in Strip(point.x), b \in Strip(point.y) }

\* the 16x16 square of points whose least corner is (x0, y0)
Square(x0, y0) ==
  { [x |-> a, y |-> b] : a \in x0..(x0 + 15), b \in y0..(y0 + 15) }
Corners(x0, y0) ==
  { [x |-> a, y |-> b] : a \in {x0, x0 + 15}, b \in {y0, y0 + 15} }

\* a coordinate brought to the nearest end of the range, and a coordinate
\* taken modulo 2^16 into the range
Clamped(c) == IF c < -32768 THEN -32768 ELSE IF c > 32767 THEN 32767 ELSE c
Wrapped(c) == (((c % 65536) + 32768) % 65536) - 32768

\* every slot of the Chunk but slot_i of word_i holds what it held before
\* the last call on the Chunk
OtherSlotsKept(word_i, slot_i) ==
  /\ \A w \in (DOMAIN words) \ {word_i} : words[w] = wpre[w]
  /\ \A s \in (0..15) \ {slot_i} :
       SlotBits(words[word_i], s) = SlotBits(wpre[word_i], s)

\* same record, same cursor, same Board.get
SameBoard(a, b) ==
  /\ a.record = b.record
  /\ a._index = b._index
  /\ SameGrid(a, b)

RECURSIVE UnsetTimes(_, _)
\* the object after n calls of Board.unset
UnsetTimes(b, n) == IF n = 0 THEN b ELSE UnsetTimes(Board_unset(b).b, n - 1)

RECURSIVE ResetTimes(_, _)
\* the object after n calls of Board.reset
ResetTimes(b, n) == IF n = 0 THEN b ELSE ResetTimes(Board_reset(b).b, n - 1)

Opposite(stone) == IF stone = Black THEN White ELSE Black

\* ------------------------------------------------------------------------
\* Properties
\* ------------------------------------------------------------------------

\* C1: Board.get(p) returns marker m exactly when (p, m) is an entry of the
\* record below the cursor, and empty when no entry below the cursor has
\* point p; entries at or beyond the cursor are not in the grid.
C1_GridMatchesPrefix ==
  \A p \in Probes :
    /\ \A m \in Stone : (Board_get(Self, p) = Some(m)) <=> (m \in Materialized(Self, p))
    /\ (Board_get(Self, p) = null) <=> (Materialized(Self, p) = {})

\* a state with a redo tail whose points are empty in the grid, next to a
\* materialized prefix
C1_Witness ==
  /\ _index >= 1
  /\ _index < Len(record)
  /\ \E p \in TailPoints(Self) : Board_get(Self, p) = null
  /\ Board_get(Self, record[1][1]) = Some(record[1][2])

\* C2: a successful Board.set at cursor c keeps entries [0, c), discards
\* the entries from c on, appends the new entry at c and leaves
\* cursor = total_count = c + 1, so that no redo is possible.
C2_HistoryCollapse ==
  (call.op = "set" /\ ret.bool) =>
    /\ SubSeq(record, 1, pre._index) = SubSeq(pre.record, 1, pre._index)
    /\ Len(record) = pre._index + 1
    /\ record[pre._index + 1] = <<call.point, call.stone>>
    /\ _index = pre._index + 1
    /\ _index = total_count(Self)
    /\ Board_reset(Self).ret = null

\* a commit made after undos: it discarded at least two recorded entries
C2_Witness ==
  /\ call.op = "set"
  /\ ret.bool
  /\ Len(pre.record) >= pre._index + 2
  /\ pre._index >= 1

\* C3: Board.set(p, m) returns false exactly when an entry below the cursor
\* has point p (whatever its marker); then record, cursor and Board.get of
\* every point are unchanged; a point only in the redo tail does not make
\* the commit fail.
C3_FailedCommitNoOp ==
  (call.op = "set") =>
    /\ (~ret.bool) <=> (\E i \in 1..pre._index : pre.record[i][1] = call.point)
    /\ (~ret.bool) => SameBoard(Self, pre)
    /\ (call.point \in TailPoints(pre) /\ Materialized(pre, call.point) = {})
         => ret.bool

\* a failed commit with the other marker while a redo tail exists
C3_Witness ==
  /\ call.op = "set"
  /\ ~ret.bool
  /\ Len(record) > _index
  /\ Board_get(Self, call.point) = Some(Opposite(call.stone))

\* C4: Board.jump(T) with T in 0..total_count ends in the state reached by
\* calling Board.unset c-T times (T < c) or Board.reset T-c times (T > c);
\* jump(c) changes nothing.
C4_JumpEquivalence ==
  (call.op = "jump" /\ call.index >= 0 /\ call.index <= Len(pre.record)) =>
    /\ ~threw
    /\ (call.index < pre._index) =>
          SameBoard(Self, UnsetTimes(pre, pre._index - call.index))
    /\ (call.index > pre._index) =>
          SameBoard(Self, ResetTimes(pre, call.index - pre._index))
    /\ (call.index = pre._index) => SameBoard(Self, pre)

\* a backward jump over at least two entries that leaves one materialized
C4_Witness ==
  /\ call.op = "jump"
  /\ call.index = 1
  /\ pre._index >= 3
  /\ _index = 1

\* C5: Board.unset at cursor c > 0 returns the entry at c-1, sets the
\* cursor to c-1, empties that entry's point, leaves every other point
\* and the whole record unchanged.
C5_Undo ==
  (call.op = "unset" /\ pre._index > 0) =>
    LET last == pre.record[pre._index]
    IN  /\ ret.entry = Some(last)
        /\ _index = pre._index - 1
        /\ Board_get(Self, last[1]) = null
        /\ \A p \in Probes \ {last[1]} : Board_get(Self, p) = Board_get(pre, p)
        /\ record = pre.record

\* an undo that leaves another stone of the same word on the grid
C5_Witness ==
  /\ call.op = "unset"
  /\ pre._index >= 2
  /\ ret.entry # null
  /\ \E p \in Probes :
       /\ Board_get(Self, p) # null
       /\ indexes[p][1] = indexes[ret.entry[1][1]][1]
       /\ indexes[p][2] = indexes[ret.entry[1][1]][2]

\* C6: Board.reset at cursor c < total_count returns the entry (p, m) at c,
\* sets the cursor to c+1, makes Board.get(p) = m and leaves the record
\* unchanged; undo then redo, and redo then undo, restore the record, the
\* cursor and the grid.
C6_Redo ==
  /\ (call.op = "reset" /\ pre._index < Len(pre.record)) =>
        LET next == pre.record[pre._index + 1]
        IN  /\ ret.entry = Some(next)
            /\ _index = pre._index + 1
            /\ Board_get(Self, next[1]) = Some(next[2])
            /\ record = pre.record
            /\ SameBoard(Board_unset(Self).b, pre)
  /\ (call.op = "unset" /\ pre._index > 0) =>
        SameBoard(Board_reset(Self).b, pre)

\* a redo of an entry that is not the last one recorded
C6_Witness ==
  /\ call.op = "reset"
  /\ ret.entry # null
  /\ _index < Len(record)
  /\ Board_get(Self, ret.entry[1][1]) = Some(ret.entry[1][2])

\* C7: the cursor is an integer with 0 <= cursor <= total_count, and
\* Board.is_empty() is true exactly when the cursor is 0, whatever
\* total_count is.
C7_CursorBound ==
  /\ Board_index(Self) \in 0..total_count(Self)
  /\ is_empty(Self) <=> (Board_index(Self) = 0)

\* an empty board that still has recorded moves, reached by a jump
C7_Witness ==
  /\ is_empty(Self)
  /\ total_count(Self) >= 2
  /\ call.op = "jump"

\* C8: Board.unset at cursor 0 and Board.reset at cursor = total_count
\* return none, Board.jump(t) with t > total_count returns; all three leave
\* the record, the cursor and Board.get of every point unchanged.
C8_EmptyNavigationNoOp ==
  /\ (call.op = "unset" /\ pre._index = 0) => (ret.entry = null /\ SameBoard(Self, pre))
  /\ (call.op = "reset" /\ pre._index = Len(pre.record)) =>
        (ret.entry = null /\ SameBoard(Self, pre))
  /\ (call.op = "jump" /\ call.index > Len(pre.record)) =>
        (~threw /\ SameBoard(Self, pre))

\* a jump past the end of a partly undone history
C8_Witness ==
  /\ call.op = "jump"
  /\ call.index > Len(pre.record)
  /\ pre._index >= 1
  /\ pre._index < Len(pre.record)

\* C9: no call throws, for any integer argument of Board.jump, and a call
\* that cannot be carried out leaves record, cursor and grid unchanged.
C9_NoThrow ==
  /\ ~threw
  /\ (call.op = "jump" /\ call.index \notin 0..Len(pre.record)) =>
        SameBoard(Self, pre)

\* the rule of C10 on the entries below the cursor of b
TurnRule(b) ==
  IF b._index = 0 THEN <<Black, TRUE>>
  ELSE IF b._index = 1 THEN <<White, b.record[1][2] = White>>
  ELSE LET last == b.record[b._index][2]
           prev == b.record[b._index - 1][2]
       IN  IF last = prev THEN <<Opposite(last), FALSE>> ELSE <<last, TRUE>>

\* C10: Board.infer_turn returns (A, true) at cursor 0, (B, entry 0 is B) at
\* cursor 1, and from cursor 2 on (opposite(last), false) when the last two
\* materialized markers are equal and (last, true) otherwise; it ignores
\* the redo tail, changes no state, and after an undo returns what it
\* returned before the undone move was committed.
C10_TurnInference ==
  /\ infer_turn(Self) = TurnRule(Self)
  /\ infer_turn(Self) = infer_turn([Self EXCEPT !.record = past_record(Self)])
  /\ (call.op = "infer_turn") => (ret.turn = TurnRule(pre) /\ Self = pre)
  /\ (call.op = "unset" /\ pre._index > 0) => infer_turn(Self) = turns[pre._index]

\* an undo at cursor 3 after which the redo tail holds a marker that the
\* turn inference must not read
C10_Witness ==
  /\ call.op = "unset"
  /\ pre._index = 3
  /\ record[1][2] # record[2][2]
  /\ record[3][2] # record[2][2]

\* C11 as stated: under commits that use the inferred marker, the boolean
\* Board.infer_turn returns is true exactly when the cursor is 0 or the
\* returned marker differs from the marker of the entry at cursor-1 (the
\* upcoming move starts a new turn), and false exactly when the upcoming
\* move continues the turn of the side that moved last.
C11_FreshTurnFlag ==
  (call.op = "infer_turn") =>
     (ret.turn[2] <=>
        (pre._index = 0 \/ ret.turn[1] # pre.record[pre._index][2]))

\* C11, amended: under commits that use the inferred marker, the boolean
\* Board.infer_turn returns is true exactly when the cursor is 0 or the
\* returned marker equals the marker of the entry at cursor-1 (the upcoming
\* move is the last of its turn), and false exactly when the returned marker
\* differs from it (the upcoming move is the first of a two-move turn).
C11_LastOfTurnFlag ==
  (call.op = "infer_turn") =>
     (ret.turn[2] <=>
        (pre._index = 0 \/ ret.turn[1] = pre.record[pre._index][2]))

\* Board.infer_turn called after an undo at cursor 3, where the side that
\* moved twice has finished its turn
C11_Witness ==
  /\ call.op = "infer_turn"
  /\ pre._index = 3
  /\ Len(pre.record) > 3
  /\ ret.turn = <<Black, FALSE>>

\* C12: for every point with both coordinates in -32768..32767, the ends
\* included, Point.from_index(point.index()) has exactly the coordinates of
\* the point.
C12_CodecRoundTrip ==
  (enc.back # null /\ InRangePoint(pt)) => enc.back[1] = pt

\* the round trip made on the point at the two ends of the range
C12_Witness ==
  /\ enc.back # null
  /\ pt = [x |-> -32768, y |-> 32767]

\* C13: two distinct points with coordinates in -32768..32767 never have the
\* same Point.index() nor the same Point.indexes() triple, and the triple is
\* (block_id, word_id, slot_id) with block_id a non-negative integer,
\* 0 <= word_id < 16 and 0 <= slot_id < 16.
C13_InjectiveAddressing ==
  (enc.index # null /\ enc.indexes # null /\ InRangePoint(pt)) =>
     /\ \A q \in InPoints \ {pt} :
          /\ codes[q].index # enc.index[1]
          /\ codes[q].indexes # enc.indexes[1]
     /\ enc.indexes[1][1] \in Nat
     /\ enc.indexes[1][2] \in 0..(WORDS_PER_CHUNK - 1)
     /\ enc.indexes[1][3] \in 0..(2^SLOT_INDEX_BITS - 1)

\* a point at the end of the range encoded while another point lies in the
\* same word of the same chunk
C13_Witness ==
  /\ enc.index # null
  /\ enc.indexes # null
  /\ pt = [x |-> -32768, y |-> 32767]
  /\ \E q \in InPoints \ {pt} :
       /\ codes[q].indexes[1] = enc.indexes[1][1]
       /\ codes[q].indexes[2] = enc.indexes[1][2]

\* C14: for every point with coordinates in -32768..32767, the ends
\* included, Point.index() returns a non-negative integer: the interleave
\* step does not reach the sign bit.
C14_UnsignedIndex ==
  (enc.value # null /\ InRangePoint(pt)) => enc.value[1] >= 0

\* C15 as stated: the in-range points mapped to one block_id by
\* Point.indexes() are exactly the 256 points of one contiguous axis-aligned
\* 16x16 square.  Checked on the block of the encoded point: some square
\* that holds the point holds every other in-range point of the block and
\* has its own in-range corners in the block.
C15_BlockIsSquare ==
  (enc.indexes # null /\ InRangePoint(pt)) =>
     \E x0 \in (pt.x - 15)..pt.x, y0 \in (pt.y - 15)..pt.y :
        /\ \A q \in InPoints :
             (codes[q].indexes[1] = enc.indexes[1][1]) => q \in Square(x0, y0)
        /\ \A q \in Corners(x0, y0) :
             InRangePoint(q) => Point_indexes(q)[1] = enc.indexes[1][1]

\* C15, amended: the in-range points mapped to one block_id by
\* Point.indexes() are exactly the 256 points (x, y) with x in 8a..8a+7 or
\* -8a-8..-8a-1 and y in 8b..8b+7 or -8b-8..-8b-1, for one pair a, b; they
\* form one contiguous 16x16 square exactly for the block of the origin
\* (a = b = 0, block_id 0).
C15_BlockIsMirroredStrips ==
  (enc.indexes # null /\ InRangePoint(pt)) =>
     /\ Cardinality(StripPoints(pt)) = 256
     /\ \A q \in StripPoints(pt) :
          InRangePoint(q) /\ Point_indexes(q)[1] = enc.indexes[1][1]
     /\ \A q \in InPoints \ StripPoints(pt) :
          codes[q].indexes[1] # enc.indexes[1][1]
     /\ (enc.indexes[1][1] = 0) <=> (StripNo(pt.x) = 0 /\ StripNo(pt.y) = 0)
     /\ (StripNo(pt.x) = 0 /\ StripNo(pt.y) = 0) <=>
           StripPoints(pt) = Square(-8, -8)

\* the block of a point away from both axes: the point (-9, 16) lies in the
\* block of (8, -17), 17 columns and 33 rows away
C15_Witness ==
  /\ enc.indexes # null
  /\ pt = [x |-> 8, y |-> -17]
  /\ codes[[x |-> -9, y |-> 16]].indexes[1] = enc.indexes[1][1]

\* C16: for every reachable Board b, Board.from_record(b.past_record()) has
\* a past_record equal to b's entry for entry, a cursor and a total_count
\* both equal to b.index() (the redo tail of b is not carried over), and a
\* Board.get equal to b's at every point.
C16_SaveLoadRoundTrip ==
  \A loaded \in {Board_from_record(past_record(Self))} :
     /\ past_record(loaded) = past_record(Self)
     /\ Board_index(loaded) = Board_index(Self)
     /\ total_count(loaded) = Board_index(Self)
     /\ SameGrid(loaded, Self)

\* a Board with two materialized entries and a redo tail, which loading
\* the saved record does not bring back
C16_Witness ==
  /\ call.op = "unset"
  /\ _index = 2
  /\ Len(record) = 3
  /\ total_count(Board_from_record(past_record(Self))) = 2

\* C17: in every reachable state the points of all record entries, below
\* and beyond the cursor, are pairwise distinct; so the RawBoard.set made
\* by Board.reset, and each one made by a forward Board.jump, whose result
\* is ignored, finds its cell empty and returns true.
C17_DistinctRecordedPoints ==
  /\ \A i \in 1..Len(record), j \in 1..Len(record) :
       (i # j) => record[i][1] # record[j][1]
  /\ (call.op = "reset" /\ ret.entry # null) =>
        RawBoard_set(pre.board, ret.entry[1][1], ret.entry[1][2]).ret
  /\ (call.op = "jump" /\ call.index \in (pre._index + 1)..Len(pre.record)) =>
        \A k \in pre._index..(call.index - 1) :
           RawBoard_set(
             JumpForward(pre.board, pre.record, pre._index, k).chunks,
             pre.record[k + 1][1], pre.record[k + 1][2]).ret

\* a forward jump that puts back three entries
C17_Witness ==
  /\ call.op = "jump"
  /\ pre._index = 0
  /\ call.index = 3
  /\ _index = 3

\* C18: when every commit uses the marker Board.infer_turn returned, with
\* undo, redo and jump interleaved, the entries below the cursor always
\* carry the markers A, B, B, A, A, B, B, ...: entry k (from 0) is A exactly
\* when k mod 4 is 0 or 3; the first move is single, every later turn has
\* two moves, and no marker fills three consecutive entries.
C18_TwoPerTurn ==
  /\ \A k \in 0..(_index - 1) :
       record[k + 1][2] = (IF k % 4 \in {0, 3} THEN Black ELSE White)
  /\ \A k \in 2..(_index - 1) :
       ~(record[k + 1][2] = record[k][2] /\ record[k][2] = record[k - 1][2])

\* the sixth entry committed over a redo tail that an undo had left: the
\* two-move turn of A is over and B moves
C18_Witness ==
  /\ call.op = "set"
  /\ ret.bool
  /\ _index = 6
  /\ Len(pre.record) > pre._index
  /\ <<record[4][2], record[5][2], record[6][2]>> = <<Black, Black, White>>

\* C19: for a point with a coordinate outside -32768..32767, within signed
\* 32 bits, either Board.set rejects the point (returns false), or the cell
\* Point.index() addresses is the cell of the point with each coordinate
\* clamped to the nearest end of the range, or the cell of the point with
\* each coordinate wrapped modulo 2^16 into the range.
C19_OutOfRangePolicy ==
  (enc.index # null /\ ~InRangePoint(pt)) =>
     \/ \A stone \in Stone : ~Board_set(NewBoard, pt, stone).ret
     \/ enc.index[1] =
          Point_index([x |-> Clamped(pt.x), y |-> Clamped(pt.y)])
     \/ enc.index[1] =
          Point_index([x |-> Wrapped(pt.x), y |-> Wrapped(pt.y)])

\* C20: for every word, slot (slot 15, the top two bits of the word,
\* included) and marker m, Chunk.set on an empty slot stores m, so that
\* Chunk.get returns m; Chunk.set on an occupied slot returns false and
\* changes nothing; Chunk.unset returns what the slot held and empties it;
\* each leaves every other slot of the Chunk as it was; and no slot ever
\* holds the pattern 3.
C20_PackedSlotIsolation ==
  /\ (call.op = "Chunk.set") =>
        /\ (Chunk_get(wpre, call.word_i, call.slot_i) = null) =>
              /\ ret.bool
              /\ Chunk_get(words, call.word_i, call.slot_i) = Some(call.stone)
        /\ (Chunk_get(wpre, call.word_i, call.slot_i) # null) =>
              /\ ~ret.bool
              /\ words = wpre
        /\ OtherSlotsKept(call.word_i, call.slot_i)
  /\ (call.op = "Chunk.unset") =>
        /\ ret.stone = Chunk_get(wpre, call.word_i, call.slot_i)
        /\ Chunk_get(words, call.word_i, call.slot_i) = null
        /\ OtherSlotsKept(call.word_i, call.slot_i)
  /\ (call.op = "Chunk.get") =>
        /\ ret.stone = Chunk_get(words, call.word_i, call.slot_i)
        /\ words = wpre
  /\ \A w \in DOMAIN words, s \in 0..15 : SlotBits(words[w], s) # 3

\* White stored in slot 15 of the last word, bit 31 of the word, while
\* slot 0 of that word holds a marker
C20_Witness ==
  /\ call.op = "Chunk.set"
  /\ call.word_i = 15
  /\ call.slot_i = 15
  /\ call.stone = White
  /\ ret.bool
  /\ 31 \in words[15]
  /\ Chunk_get(wpre, 15, 0) # null

====
